---- MODULE Spec2Model ----
(***************************************************************************)
(* Slack voice message -> Deepgram transcription -> Zoho Desk ticket.      *)
(* Model of src/main.py: the two POST handlers (/webhook, /process) and    *)
(* the pipeline SlackTranscriptionWorker.process_slack_voice_message with  *)
(* its three stages.  Every request is served by its own thread, so the    *)
(* stages of different requests interleave; the threads share the          *)
(* temporary directory and the configuration read at start-up.             *)
(*                                                                         *)
(* Python values: a dict is a function on its keys ({} is <<>>), a str     *)
(* that the code inspects character by character (the transcript) is a     *)
(* sequence of one-character strings, a formatted string is the sequence   *)
(* of its parts, and None is the marker None below.  Time stamps (ticket   *)
(* subject, footer), the suffix of the temporary file and log output are   *)
(* left out.                                                               *)
(***************************************************************************)
EXTENDS Integers, Sequences, FiniteSets, TLC

(* ---------------- bounds ---------------- *)

\* number of HTTP requests served (each by its own thread)
MaxRequests == 2

Requests == 1..MaxRequests

\* names tempfile can hand out; one per request is enough for a free name to
\* exist always
Names == 1..MaxRequests

(* ---------------- Python values ---------------- *)

\* Python None where a str is expected
None == "<None>"

\* None where a transcript (a character sequence) is expected
NoneSeq == <<None>>

\* None where a dict is expected (request.get_json() of the body `null`,
\* create_zoho_desk_ticket's `return None`)
NoneDict == [py_none |-> TRUE]

\* audio_file_path before the download / when the download returned None
NoPath == 0

\* owner of a name that is not in the temporary directory
NoFile == 0

URL == "https://files.slack.com/voice.mp3"

TOKEN == "xoxb-token"

Metadata == [user_name |-> "alice", channel_name |-> "support"]

\* JSON bodies POSTed to /webhook and /process
Bodies ==
  { NoneDict,
    <<>>,
    [file_url |-> URL],
    [slack_token |-> TOKEN],
    [file_url |-> "", slack_token |-> TOKEN],
    [file_url |-> URL, slack_token |-> TOKEN],
    [file_url |-> URL, slack_token |-> TOKEN, metadata |-> Metadata] }

\* transcripts Deepgram may return (before .strip())
RawTranscripts == { <<>>, <<" ">>, <<"a">>, <<" ", "a", " ">> }

\* HTTP statuses the three services answer with; NoResponse: the request
\* raised (timeout, connection error)
NoResponse == 0

SlackStatuses == {200, 404}

DeepgramStatuses == {200, 500}

ZohoStatuses == {200, 201, 500}

\* bodies of a Zoho Desk 200/201 answer: a JSON object with an id, or a body
\* that is no JSON (response.json() raises)
NotJson == "<not json>"

ZohoReplies == {"1001", NotJson}

\* str(e) of the exceptions the code catches
TransportError == <<"HTTPSConnectionPool: Read timed out.">>

JsonError == <<"Expecting value: line 1 column 1 (char 0)">>

AttributeErrorGet == <<"'NoneType' object has no attribute 'get'">>

(* ---------------- pure helpers ---------------- *)

\* dict.get(k, default)
Get(d, k, default) == IF k \in DOMAIN d THEN d[k] ELSE default

\* `not s` for a str or None
FalsyStr(s) == s = None \/ s = ""

\* `not data` for the parsed JSON body
FalsyDict(d) == d = NoneDict \/ DOMAIN d = {}

FalsySeq_IsNone(t) == t = NoneSeq

\* `not transcript` (main.py:193)
FalsySeq(t) == t = NoneSeq \/ t = <<>>

RECURSIVE LStrip(_)
LStrip(s) == IF s # <<>> /\ Head(s) = " " THEN LStrip(Tail(s)) ELSE s

RECURSIVE RStrip(_)
RStrip(s) ==
  IF s # <<>> /\ s[Len(s)] = " " THEN RStrip(SubSeq(s, 1, Len(s) - 1)) ELSE s

Strip_Identity(s) == s

\* str.strip() (main.py:99)
Strip(s) == RStrip(LStrip(s))

FreeNames_Any(files) == Names

\* names tempfile.NamedTemporaryFile can create: it opens with O_EXCL and
\* tries another random name when the name exists
FreeNames(files) == { n \in Names : files[n] = NoFile }

\* the ticket payload (main.py:118-143), time stamps left out
ticket_data(text, metadata) ==
  [ description |->
      <<text>> \o (IF "channel_name" \in DOMAIN metadata
                     THEN <<"**Source Channel:** ", metadata["channel_name"]>>
                     ELSE <<>>),
    contact |->
      IF "user_name" \in DOMAIN metadata
        THEN <<metadata["user_name"], Get(metadata, "user_email", "unknown@example.com")>>
        ELSE <<>>,
    priority |-> "Medium",
    status |-> "Open",
    channel |-> "Voice Message" ]

\* one external HTTP call: which service, what was sent, the status that came
\* back (NoResponse when the call raised) and, for Zoho Desk, the body
Call(c, sent, status, reply) ==
  [call |-> c, sent |-> sent, status |-> status, reply |-> reply]

(* ---------------- results ---------------- *)

DownloadFailedResult_WrongError ==
  [success |-> FALSE, error |-> <<"Transcription failed">>]

\* main.py:186-189
DownloadFailedResult ==
  [success |-> FALSE, error |-> <<"Failed to download audio from Slack">>]

\* main.py:194-197
TranscriptionFailedResult ==
  [success |-> FALSE, error |-> <<"Transcription failed">>]

\* main.py:159-163
TicketCreated(ticket_id) ==
  [ success |-> TRUE,
    ticket_id |-> ticket_id,
    ticket_url |-> <<"https://desk.zoho.com/desk/v1/tickets/", ticket_id>> ]

\* main.py:166-169
TicketHttpError(status, text) ==
  [success |-> FALSE, error |-> <<"HTTP ", ToString(status), ": ", text>>]

\* main.py:173-176
TicketException(e) == [success |-> FALSE, error |-> e]

\* main.py:209-215
SuccessResult(text, ticket_result) ==
  [ success |-> TRUE,
    transcript |-> text,
    ticket_id |-> Get(ticket_result, "ticket_id", None),
    ticket_url |-> Get(ticket_result, "ticket_url", <<None>>),
    message |-> "Voice message processed successfully" ]

SubmitFailedResult_WithTicket(text, ticket_result) ==
  [ success |-> FALSE,
    transcript |-> text,
    ticket_id |-> Get(ticket_result, "ticket_id", None),
    error |-> Get(ticket_result, "error", <<"Failed to create Zoho Desk ticket">>) ]

\* main.py:217-221
SubmitFailedResult(text, ticket_result) ==
  [ success |-> FALSE,
    transcript |-> text,
    error |-> Get(ticket_result, "error", <<"Failed to create Zoho Desk ticket">>) ]

\* main.py:223-228, and the handlers' except clauses
ExceptionResult(e) == [success |-> FALSE, error |-> e]

\* main.py:272-275, 302-305
MissingFieldsResult ==
  [success |-> FALSE, error |-> <<"Missing required fields: file_url and slack_token">>]

\* main.py:261-264
NoJsonResult == [success |-> FALSE, error |-> <<"No JSON data received">>]

\* jsonify(body), status
Response(status, body) == [status |-> status, body |-> body]

NoResponseYet == Response(0, <<>>)

(* ---------------- state ---------------- *)

VARIABLES
  config,         \* module-level configuration read from the environment
  files,          \* the temporary directory: name -> request that created it
  pc,             \* position of each request's thread
  data,           \* request.get_json() of each request
  path,           \* audio_file_path of each pipeline run
  transcript,     \* transcript of each pipeline run
  ticket_result,  \* ticket_result of each pipeline run
  response,       \* what the handler returned
  calls,          \* the external HTTP calls each request made, in order
  fileops         \* the temporary-file operations each request made, in order

vars ==
  <<config, files, pc, data, path, transcript, ticket_result, response, calls, fileops>>

\* DEEPGRAM_API_KEY, ZOHO_DESK_API_KEY, ZOHO_DESK_ORG_ID: set or not
Configs == [deepgram : BOOLEAN, zoho_key : BOOLEAN, zoho_org : BOOLEAN]

Init ==
  /\ config \in Configs
  /\ files = [n \in Names |-> NoFile]
  /\ pc = [r \in Requests |-> "idle"]
  /\ data = [r \in Requests |-> NoneDict]
  /\ path = [r \in Requests |-> NoPath]
  /\ transcript = [r \in Requests |-> NoneSeq]
  /\ ticket_result = [r \in Requests |-> NoneDict]
  /\ response = [r \in Requests |-> NoResponseYet]
  /\ calls = [r \in Requests |-> <<>>]
  /\ fileops = [r \in Requests |-> <<>>]

\* the handler returns: the request is answered
Return(r, status, body) ==
  /\ response' = [response EXCEPT ![r] = Response(status, body)]
  /\ pc' = [pc EXCEPT ![r] = "done"]

FileOp(op, n, owner) == [op |-> op, name |-> n, owner |-> owner]

(* ---------------- the HTTP front end ---------------- *)

\* the two handlers' common tail: the required-fields check, then the
\* pipeline (main.py:267-282, 297-308)
Dispatch(r, body) ==
  IF FalsyStr(Get(body, "file_url", None)) \/ FalsyStr(Get(body, "slack_token", None))
    THEN Return(r, 400, MissingFieldsResult)
    ELSE /\ pc' = [pc EXCEPT ![r] = "download"]
         /\ UNCHANGED response

\* POST /webhook (main.py:254-289)
slack_webhook(r) ==
  /\ pc[r] = "idle"
  /\ \E body \in Bodies :
       /\ data' = [data EXCEPT ![r] = body]
       /\ IF FalsyDict(body)
            THEN Return(r, 400, NoJsonResult)
            ELSE Dispatch(r, body)
  /\ UNCHANGED <<config, files, path, transcript, ticket_result, calls, fileops>>

\* POST /process (main.py:291-315): no `if not data`, so data.get on None
\* raises AttributeError, which the handler's except turns into a 500
process_voice_message(r) ==
  /\ pc[r] = "idle"
  /\ \E body \in Bodies :
       /\ data' = [data EXCEPT ![r] = body]
       /\ IF body = NoneDict
            THEN Return(r, 500, ExceptionResult(AttributeErrorGet))
            ELSE Dispatch(r, body)
  /\ UNCHANGED <<config, files, path, transcript, ticket_result, calls, fileops>>

(* ---------------- the pipeline ---------------- *)

SlackRequest(r) ==
  [url |-> data[r]["file_url"], authorization |-> <<"Bearer ", data[r]["slack_token"]>>]

\* step 1 (main.py:184-189 with download_audio_from_slack, main.py:31-65)
download_audio_from_slack(r) ==
  /\ pc[r] = "download"
  /\ \/ \* requests.get raises: except -> None
        /\ calls' = [calls EXCEPT ![r] = Append(@, Call("fetch", SlackRequest(r), NoResponse, ""))]
        /\ Return(r, 200, DownloadFailedResult)
        /\ UNCHANGED <<files, path, fileops>>
     \/ \* status other than 200 -> None
        /\ \E status \in SlackStatuses \ {200} :
             calls' = [calls EXCEPT ![r] = Append(@, Call("fetch", SlackRequest(r), status, ""))]
        /\ Return(r, 200, DownloadFailedResult)
        /\ UNCHANGED <<files, path, fileops>>
     \/ \* status 200: NamedTemporaryFile(delete=False) creates the file
        /\ calls' = [calls EXCEPT ![r] = Append(@, Call("fetch", SlackRequest(r), 200, ""))]
        /\ \E n \in FreeNames(files) :
             /\ files' = [files EXCEPT ![n] = r]
             /\ fileops' = [fileops EXCEPT ![r] = Append(@, FileOp("create", n, r))]
             /\ \/ \* the body is written, the path returned
                   /\ path' = [path EXCEPT ![r] = n]
                   /\ pc' = [pc EXCEPT ![r] = "transcribe"]
                   /\ UNCHANGED response
                \/ \* temp_file.write raises (disk full): the file stays,
                   \* except -> None
                   /\ Return(r, 200, DownloadFailedResult)
                   /\ UNCHANGED path
  /\ UNCHANGED <<config, data, transcript, ticket_result>>

\* the orchestrator after transcribe_with_deepgram returned t (main.py:192-197)
AfterTranscribe(r, t) ==
  /\ transcript' = [transcript EXCEPT ![r] = t]
  /\ IF FalsySeq(t)
       THEN Return(r, 200, TranscriptionFailedResult)
       ELSE /\ pc' = [pc EXCEPT ![r] = "submit"]
            /\ UNCHANGED response

\* step 2 (main.py:192-197 with transcribe_with_deepgram, main.py:67-106)
transcribe_with_deepgram(r) ==
  /\ pc[r] = "transcribe"
  /\ \/ \* no API key: None before the file is opened
        /\ ~config.deepgram
        /\ AfterTranscribe(r, NoneSeq)
        /\ UNCHANGED <<calls, fileops>>
     \/ /\ config.deepgram
        /\ fileops' = [fileops EXCEPT ![r] = Append(@, FileOp("read", path[r], files[path[r]]))]
        /\ \/ \* requests.post raises
              /\ calls' = [calls EXCEPT ![r] =
                             Append(@, Call("transcribe", [file |-> path[r]], NoResponse, ""))]
              /\ AfterTranscribe(r, NoneSeq)
           \/ \* status other than 200
              /\ \E status \in DeepgramStatuses \ {200} :
                   calls' = [calls EXCEPT ![r] =
                               Append(@, Call("transcribe", [file |-> path[r]], status, ""))]
              /\ AfterTranscribe(r, NoneSeq)
           \/ \* status 200, but result['results']['channels'][0]... raises
              /\ calls' = [calls EXCEPT ![r] =
                             Append(@, Call("transcribe", [file |-> path[r]], 200, NotJson))]
              /\ AfterTranscribe(r, NoneSeq)
           \/ \* status 200 with a transcript
              /\ calls' = [calls EXCEPT ![r] =
                             Append(@, Call("transcribe", [file |-> path[r]], 200, ""))]
              /\ \E raw \in RawTranscripts : AfterTranscribe(r, Strip(raw))
  /\ UNCHANGED <<config, files, data, path, ticket_result>>

ZohoRequest(r) == ticket_data(transcript[r], Get(data[r], "metadata", <<>>))

\* the rest of process_slack_voice_message once create_zoho_desk_ticket has
\* returned ticket (main.py:202-228): os.unlink, whose failure is swallowed,
\* then the result
cleanup(r, ticket) ==
  /\ ticket_result' = [ticket_result EXCEPT ![r] = ticket]
  /\ fileops' = [fileops EXCEPT ![r] = Append(@, FileOp("unlink", path[r], files[path[r]]))]
  /\ \/ files' = [files EXCEPT ![path[r]] = NoFile]
     \/ UNCHANGED files
  /\ IF ticket = NoneDict
       THEN \* None.get raises AttributeError: the outer except
            Return(r, 200, ExceptionResult(AttributeErrorGet))
       ELSE IF ticket.success
         THEN Return(r, 200, SuccessResult(transcript[r], ticket))
         ELSE Return(r, 200, SubmitFailedResult(transcript[r], ticket))

\* requests.post to Zoho Desk and what create_zoho_desk_ticket makes of the
\* answer (main.py:153-176)
ZohoPost(r) ==
  \/ \* requests.post raises
     /\ calls' = [calls EXCEPT ![r] = Append(@, Call("submit", ZohoRequest(r), NoResponse, ""))]
     /\ cleanup(r, TicketException(TransportError))
  \/ \* status other than 200, 201
     \E status \in ZohoStatuses \ {200, 201} :
       /\ calls' = [calls EXCEPT ![r] = Append(@, Call("submit", ZohoRequest(r), status, "error"))]
       /\ cleanup(r, TicketHttpError(status, "error"))
  \/ \* status 200 or 201; response.json() raises on a body that is no JSON
     \E status \in {200, 201}, reply \in ZohoReplies :
       /\ calls' = [calls EXCEPT ![r] = Append(@, Call("submit", ZohoRequest(r), status, reply))]
       /\ cleanup(r, IF reply = NotJson THEN TicketException(JsonError)
                                        ELSE TicketCreated(reply))

create_zoho_desk_ticket_Dedup(r) ==
  /\ pc[r] = "submit"
  /\ IF \E q \in Requests \ {r} : data[q] = data[r] /\ ticket_result[q] # NoneDict
       THEN /\ UNCHANGED calls
            /\ \E q \in Requests \ {r} :
                 /\ data[q] = data[r] /\ ticket_result[q] # NoneDict
                 /\ cleanup(r, ticket_result[q])
       ELSE ZohoPost(r)
  /\ UNCHANGED <<config, data, path, transcript>>

\* step 3 and the return (main.py:200-228 with create_zoho_desk_ticket,
\* main.py:108-176).  The POST touches nothing the requests share, so it is
\* one step with the cleanup that follows it.
create_zoho_desk_ticket(r) ==
  /\ pc[r] = "submit"
  /\ \/ \* not all([ZOHO_DESK_API_KEY, ZOHO_DESK_ORG_ID]): return None
        /\ ~(config.zoho_key /\ config.zoho_org)
        /\ UNCHANGED calls
        /\ cleanup(r, NoneDict)
     \/ /\ config.zoho_key /\ config.zoho_org
        /\ ZohoPost(r)
  /\ UNCHANGED <<config, data, path, transcript>>

Next ==
  \E r \in Requests :
    \/ slack_webhook(r)
    \/ process_voice_message(r)
    \/ download_audio_from_slack(r)
    \/ transcribe_with_deepgram(r)
    \/ create_zoho_desk_ticket(r)

Spec == Init /\ [][Next]_vars

(* ---------------- vocabulary of the claims ---------------- *)

Done(r) == pc[r] = "done"

Result(r) == response[r].body

\* the calls request r made to one service
CallsTo(r, c) == { i \in DOMAIN calls[r] : calls[r][i].call = c }

\* the pipeline ran and its fetch stage returned a path / returned None
FetchSucceeded(r) == path[r] # 0 /\ CallsTo(r, "fetch") # {}

FetchFailed(r) == path[r] = 0 /\ CallsTo(r, "fetch") # {}

\* transcribe_with_deepgram returned a transcript (status 200, well formed)
TranscriptObtained(r) == FetchSucceeded(r) /\ transcript[r] # <<"<None>">>

Trimmed(t) == t = <<>> \/ (t[1] # " " /\ t[Len(t)] # " ")

UnlinkAttempted(r) ==
  \E i \in DOMAIN fileops[r] : fileops[r][i].op = "unlink" /\ fileops[r][i].name = path[r]

\* the run holds a temporary file it has not yet tried to delete
Holding(r) == pc[r] \in {"transcribe", "submit"}

(* ---------------- claims ---------------- *)

\* C1: in every run whose fetch stage created a temporary file, a deletion
\* of that file is attempted before the run returns, on every exit path.
C1_CleanupOnEveryExit ==
  \A r \in Requests : (Done(r) /\ FetchSucceeded(r)) => UnlinkAttempted(r)

\* C2: when fetch and transcription succeeded and the submission failed for
\* any reason (also a missing helpdesk credential), the result has
\* success=false, the transcript obtained and the submission's error text.
C2_SubmitFailureKeepsTranscript ==
  \A r \in Requests :
    ( /\ Done(r)
      /\ TranscriptObtained(r)
      /\ transcript[r] # <<>>
      /\ (ticket_result[r] = [py_none |-> TRUE] \/ ~ticket_result[r].success) )
    => /\ Result(r).success = FALSE
       /\ "transcript" \in DOMAIN Result(r)
       /\ Result(r).transcript = transcript[r]
       /\ "error" \in DOMAIN Result(r)
       /\ ticket_result[r] # [py_none |-> TRUE] => Result(r).error = ticket_result[r].error

\* C3: when the fetch stage fails, the result is exactly {success:false,
\* error:"Failed to download audio from Slack"} and neither the
\* transcription call nor the submission call is made.
C3_FetchFailureResult ==
  \A r \in Requests :
    (Done(r) /\ FetchFailed(r))
    => /\ Result(r) = [success |-> FALSE, error |-> <<"Failed to download audio from Slack">>]
       /\ CallsTo(r, "transcribe") = {}
       /\ CallsTo(r, "submit") = {}
       /\ Len(calls[r]) = 1

C3_Witness ==
  \E r \in Requests : Done(r) /\ FetchFailed(r) /\ calls[r][1].status = 404

\* C4: on both endpoints a body that lacks file_url or slack_token (also {}
\* and null) is answered 400 "Missing required fields: file_url and
\* slack_token", and the pipeline is not started.
C4_MissingFieldsRejected ==
  \A r \in Requests :
    ( /\ Done(r)
      /\ \/ data[r] = [py_none |-> TRUE]
         \/ "file_url" \notin DOMAIN data[r]
         \/ "slack_token" \notin DOMAIN data[r] )
    => /\ response[r].status = 400
       /\ Result(r).error = <<"Missing required fields: file_url and slack_token">>
       /\ calls[r] = <<>>

\* C5 as claimed: when fetch returned 200 and the file was written, Deepgram
\* returned 200 with a transcript and Zoho Desk returned 200 or 201, the
\* result is success=true with the trimmed transcript, the ticket id and the
\* ticket URL.
C5_AllStagesSucceed_Original ==
  \A r \in Requests :
    ( /\ Done(r)
      /\ TranscriptObtained(r)
      /\ \E i \in CallsTo(r, "submit") : calls[r][i].status \in {200, 201} )
    => Result(r).success = TRUE

\* C5 as amended: ... and Zoho Desk returned 200 or 201 with a body that
\* parses as a JSON object; then the result is success=true with the trimmed
\* transcript, the id of that body and the URL built from it.
C5_AllStagesSucceed ==
  \A r \in Requests : \A i \in CallsTo(r, "submit") :
    ( /\ Done(r)
      /\ TranscriptObtained(r)
      /\ calls[r][i].status \in {200, 201}
      /\ calls[r][i].reply # "<not json>" )
    => /\ Result(r) =
            [ success |-> TRUE,
              transcript |-> transcript[r],
              ticket_id |-> calls[r][i].reply,
              ticket_url |-> <<"https://desk.zoho.com/desk/v1/tickets/", calls[r][i].reply>>,
              message |-> "Voice message processed successfully" ]
       /\ Trimmed(Result(r).transcript)
       /\ Result(r).transcript # <<>>
       /\ response[r].status = 200

C5_Witness ==
  \E r \in Requests :
    /\ Done(r)
    /\ Result(r).success = TRUE
    /\ \E i \in CallsTo(r, "submit") : calls[r][i].status = 201

\* C6: a result of process_slack_voice_message with success=false never
\* contains a ticket_id nor a ticket_url.
C6_FailureHasNoTicket ==
  \A r \in Requests :
    (Done(r) /\ calls[r] # <<>> /\ Result(r).success = FALSE)
    => /\ "ticket_id" \notin DOMAIN Result(r)
       /\ "ticket_url" \notin DOMAIN Result(r)

\* a failed result after Zoho Desk was asked
C6_Witness ==
  \E r \in Requests :
    Done(r) /\ CallsTo(r, "submit") # {} /\ Result(r).success = FALSE

\* C7: two runs with the same input that both succeed each post their own
\* ticket-creation request: nothing kept between runs suppresses the second.
C7_NotIdempotent ==
  \A r1, r2 \in Requests :
    ( /\ r1 # r2
      /\ Done(r1) /\ Done(r2)
      /\ data[r1] = data[r2]
      /\ calls[r1] # <<>> /\ calls[r2] # <<>>
      /\ Result(r1).success = TRUE /\ Result(r2).success = TRUE )
    => /\ Cardinality(CallsTo(r1, "submit")) = 1
       /\ Cardinality(CallsTo(r2, "submit")) = 1

\* two successful runs of one input, whose two POSTs carried the same payload
C7_Witness ==
  \E r1, r2 \in Requests :
    /\ r1 # r2
    /\ Done(r1) /\ Done(r2)
    /\ data[r1] = data[r2]
    /\ Result(r1).success = TRUE /\ Result(r2).success = TRUE
    /\ \E i \in CallsTo(r1, "submit"), j \in CallsTo(r2, "submit") :
         calls[r1][i].sent = calls[r2][j].sent

\* C8: within one run the calls are fetch, transcribe, submit in this order,
\* each at most once; transcribe only after fetch succeeded, submit only
\* after transcription returned a non-empty transcript.
C8_StageOrder ==
  \A r \in Requests :
    /\ Len(calls[r]) <= 3
    /\ \A i \in DOMAIN calls[r] : calls[r][i].call = <<"fetch", "transcribe", "submit">>[i]
    /\ CallsTo(r, "transcribe") # {} => (calls[r][1].status = 200 /\ path[r] # 0)
    /\ CallsTo(r, "submit") # {}
         => /\ calls[r][2].status = 200
            /\ transcript[r] # <<"<None>">>
            /\ transcript[r] # <<>>

C8_Witness ==
  \E r \in Requests : Done(r) /\ Len(calls[r]) = 3

\* C9: concurrent runs hold distinctly named temporary files, and a run
\* reads and deletes only a file it created itself.
C9_OwnTempFile ==
  /\ \A r \in Requests : \A i \in DOMAIN fileops[r] : fileops[r][i].owner = r
  /\ \A r1, r2 \in Requests :
       (r1 # r2 /\ Holding(r1) /\ Holding(r2)) => path[r1] # path[r2]

\* two runs in flight at once, each holding its file, one past its read
C9_Witness ==
  \E r1, r2 \in Requests :
    /\ r1 # r2
    /\ pc[r1] = "submit" /\ pc[r2] = "transcribe"
    /\ \E i \in DOMAIN fileops[r1] : fileops[r1][i].op = "read"

\* C10: whenever the fetch stage fails, also while writing the body to the
\* temporary file, no temporary file created by that run exists when the run
\* returns.
C10_NoFileAfterFetchFailure ==
  \A r \in Requests :
    (Done(r) /\ FetchFailed(r)) => \A n \in Names : files[n] # r
====
